---- MODULE Spec2Model ----
(***************************************************************************)
(* Model of the roboTV streaming core: the StreamController command        *)
(* dispatcher, the LiveStreamer (switchChannel, sendStreamPacket, envelope *)
(* assembly in requestPacket, seek) and the recorded PacketPlayer.         *)
(*                                                                         *)
(* The live session and the recorded player are separate objects that      *)
(* share no state; a behaviour exercises the one named by `backing`, which *)
(* is "patpmt" for a call of createFromPatPmt alone and becomes "crashed"  *)
(* when the process is ended by a trap.                                    *)
(* The channel cache is shared by the live sessions of the process; `vdr`  *)
(* is what the hosting runtime and the broadcast say about the channel.    *)
(***************************************************************************)
EXTENDS Integers, Sequences, FiniteSets, TLC

(***************************************************************************)
(* Program constants                                                       *)
(***************************************************************************)
MIN_PACKET_SIZE == 131072

EnvelopeHeaderLen == 16

SubPacketPrefixLen == 4

TS_SIZE == 188

PreQueueLimit == 50

RecLengthSec == 2

NowMs == 1000

(***************************************************************************)
(* Bounds of the model                                                     *)
(***************************************************************************)
MaxPackets == 3

MaxQueue == 2

MaxSeeks == 1

maxPacketCount == 2

MaxStreams == 1

MaxShortReads == 1

(***************************************************************************)
(* Input domains                                                           *)
(***************************************************************************)
\* payload lengths of the wire packets that are folded into an envelope:
\* 16 + 2 * (4 + 65524) = 131072 hits the threshold exactly with two packets
\* (their payloads alone sum to less), and 40000 needs a third packet.
PktLens == {40000, 65524}

StreamChangeLen == 100

SignalInfoLen == 60

\* the channel list of the hosting runtime: (unique id, ordinal number)
Channels == {[uid |-> 101, number |-> 1], [uid |-> 102, number |-> 2]}

NoChannel == [uid |-> 0, number |-> 0]

\* uid field of an OPEN request: 101 is the unique id of a channel, 2 is only
\* the ordinal number of a channel, 7 is neither
RequestUids == {101, 2, 7}

\* optional language fields of an OPEN request: absent, or (language, type)
LangInputs == {<<>>, <<"deu", "NONE">>}

\* lengths of the recordings that are played: four TS packets, and four TS
\* packets followed by a truncated one
TotalLengths == {752, 800}

\* bytes the TS sync scan of getNextPacket may have to skip in a block
SyncOffsets == {0, 100}

\* PMT version found in a block by the PAT/PMT parser; -1: no new PAT/PMT
PmtInputs == {-1, 0, 1}

\* wallclock positions of a seek in a recording: before its start time, its
\* middle, and after its end
SeekClocks == {0, NowMs + 1000, 5000}

NULL == 0

NoDevice == 0

TheDevice == 1

VARIABLES
    backing,      \* "live" or "recorded": the object this behaviour drives
    ctl,          \* StreamController: m_streamer, m_language, m_langStreamType
    alive,        \* the LiveStreamer objects constructed and not yet deleted
    streamer,     \* the LiveStreamer that ctl.m_streamer points to
    queue,        \* its LiveQueue: entries, read cursor, paused
    m_mutex,      \* LiveStreamer::m_mutex: "free" or its holder
    produced,     \* number of wire packets handed to the LiveQueue so far
    seeks,        \* number of LiveStreamer::seek calls so far
    response,     \* the reply of the last command that completed
    player,       \* the PacketPlayer object
    playerPc,     \* position of the caller inside PacketPlayer::requestPacket
    playerRet,    \* the last value returned by PacketPlayer::requestPacket
    patpmt,       \* what the cPatPmtParser knows: video, dolby, audio, subtitles
    item,         \* the StreamBundle createFromPatPmt returned last
    cc,           \* the thread that delivers ChannelChange callbacks
    fault,        \* the undefined behaviour the process has run into, if any
    cache,        \* ChannelCache::instance(): channel uid -> StreamBundle
    vdr           \* what the tuned channel carries now: video pid, codec parameters

vars == <<backing, ctl, alive, streamer, queue, m_mutex, produced, seeks,
          response, player, playerPc, playerRet, patpmt, item, cc, fault,
          cache, vdr>>

liveVars == <<ctl, alive, streamer, queue, m_mutex, produced, seeks, response>>

playerVars == <<player, playerPc, playerRet>>

(***************************************************************************)
(* MsgPacket used as outer envelope                                        *)
(***************************************************************************)
\* a null MsgPacket pointer
NullPacket == [isNull |-> TRUE, hdr |-> 0, subs |-> <<>>]

\* new MsgPacket() followed by hdrLen bytes of header fields
NewEnvelope(hdrLen) == [isNull |-> FALSE, hdr |-> hdrLen, subs |-> <<>>]

RECURSIVE SumLens(_)
SumLens(s) ==
    IF s = <<>> THEN 0
    ELSE SubPacketPrefixLen + Head(s).len + SumLens(Tail(s))

\* MsgPacket::getPayloadLength() of an envelope
getPayloadLength(env) == env.hdr + SumLens(env.subs)

\* an envelope that keeps only the sub-packet added last
AppendSub_last(env, p, epoch) ==
    [env EXCEPT !.subs = <<[id |-> p.id, len |-> p.len,
                            kind |-> p.kind, epoch |-> epoch]>>]

\* put_U16(msgID); put_U16(clientID); put_Blob(payload): one sub-packet
AppendSub(env, p, epoch) ==
    [env EXCEPT !.subs = Append(@, [id |-> p.id, len |-> p.len,
                                    kind |-> p.kind, epoch |-> epoch])]

(***************************************************************************)
(* LiveQueue                                                               *)
(***************************************************************************)
EmptyQueue == [entries |-> <<>>, rd |-> 0, paused |-> FALSE]

\* LiveQueue::queue: append; beyond the retention limit the oldest entry is
\* evicted
LiveQueue_queue(q, p) ==
    IF Len(q.entries) >= MaxQueue
    THEN [q EXCEPT !.entries = Append(Tail(@), p),
                   !.rd = IF @ > 0 THEN @ - 1 ELSE 0]
    ELSE [q EXCEPT !.entries = Append(@, p)]

\* LiveQueue::read: is there a packet at the read cursor
LiveQueue_canRead(q) == q.rd < Len(q.entries)

LiveQueue_front(q) == q.entries[q.rd + 1]

LiveQueue_advance(q) == [q EXCEPT !.rd = @ + 1]

\* LiveQueue::seek: move the read cursor to the newest retained packet
\* enqueued at or before w; outside the retained window the cursor stays
LiveQueue_seek(q, w) ==
    LET idx == {i \in 1..Len(q.entries) : q.entries[i].id <= w}
    IN  IF idx = {} THEN q
        ELSE [q EXCEPT !.rd = (CHOOSE i \in idx : \A j \in idx : j <= i) - 1]

(***************************************************************************)
(* ChannelCache and the stream bundles of a channel                        *)
(***************************************************************************)
\* the video pids a channel may carry; its audio pid is 301
ChannelPids == {100, 110}

\* the codec parameters a parser may find in the streams; 0: not known
ChannelParams == {1, 2}

\* a stream of the bundle of a channel; the language of the streams is the
\* same throughout
ChannelStream(pid, type, params) == [pid |-> pid, type |-> type, params |-> params]

\* StreamBundle::createFromChannel: the streams the channel data name, their
\* codec parameters not known
createFromChannel(channel, v) ==
    <<ChannelStream(v.vpid, "H264", 0), ChannelStream(301, "MPEG2AUDIO", 0)>>

\* StreamBundle::isMetaOf: every stream of a has a stream of the same pid and
\* type in b, whatever the codec parameters
isMetaOf(a, b) ==
    \A i \in DOMAIN a :
        \E j \in DOMAIN b : a[i].pid = b[j].pid /\ a[i].type = b[j].type

\* the cache of a process that has streamed no channel
NoCache == [u \in {c.uid : c \in Channels} |-> <<>>]

\* ChannelCache::lookup: the empty bundle on a miss
ChannelCache_lookup(c, uid) == c[uid]

\* ChannelCache::add(uid, bundle)
ChannelCache_add(c, uid, bundle) == [c EXCEPT ![uid] = bundle]

\* ChannelCache::add(channel): the bundle found in a short sample of the
\* channel is cached
ChannelCache_addChannel(c, channel, v) ==
    ChannelCache_add(c, channel.uid,
                     <<ChannelStream(v.vpid, "H264", v.params),
                       ChannelStream(301, "MPEG2AUDIO", v.params)>>)

(***************************************************************************)
(* LiveStreamer                                                            *)
(***************************************************************************)
\* the fields of a LiveStreamer right after its constructor
NewStreamer ==
    [m_device |-> NoDevice, attached |-> FALSE, m_uid |-> 0,
     m_requestStreamChange |-> FALSE, m_waitForKeyFrame |-> FALSE,
     demuxReady |-> FALSE, m_demuxers |-> <<>>, m_streamPacket |-> NullPacket]

\* no LiveStreamer object
NoStreamer == NewStreamer

\* a switchChannel that does not look at the timers
NoDeviceStatus_noTimers(timerRecording) == "DATALOCKED"

\* the status of LiveStreamer::switchChannel when no device is available
NoDeviceStatus(timerRecording) ==
    IF timerRecording THEN "RECRUNNING" ELSE "DATALOCKED"

\* the status of LiveStreamer::switchChannel when attach() fails
AttachFailedStatus == "DATALOCKED"

\* LiveStreamer::switchChannel: the status it returns
switchChannelStatus(channel, devFree, tuneOk, attachOk, timerRecording) ==
    IF channel = NoChannel THEN "ERROR"
    ELSE IF ~devFree THEN NoDeviceStatus(timerRecording)
    ELSE IF ~tuneOk THEN "ERROR"
    ELSE IF ~attachOk THEN AttachFailedStatus
    ELSE "OK"

\* LiveStreamer::switchChannel, lines 121-142: the cache it leaves behind
switchChannelCache(c, channel, devFree, tuneOk, v) ==
    IF channel = NoChannel \/ ~devFree \/ ~tuneOk THEN c
    ELSE LET c1 == IF Len(ChannelCache_lookup(c, channel.uid)) # 0 THEN c
                   ELSE ChannelCache_addChannel(c, channel, v)
         IN  IF ~isMetaOf(createFromChannel(channel, v),
                          ChannelCache_lookup(c1, channel.uid))
             THEN ChannelCache_addChannel(c1, channel, v)
             ELSE c1

\* LiveStreamer::switchChannel: the streamer it leaves behind; bundle is the
\* cached bundle of lines 121-142
switchChannelState(s, channel, devFree, tuneOk, attachOk, bundle) ==
    IF channel = NoChannel THEN s
    ELSE IF ~devFree THEN [s EXCEPT !.m_device = NoDevice]
    ELSE IF ~tuneOk THEN [s EXCEPT !.m_device = TheDevice]
    ELSE [s EXCEPT !.m_device = TheDevice,
                   !.m_uid = channel.uid,
                   !.demuxReady = FALSE,
                   !.m_demuxers = IF Len(bundle) # 0 THEN bundle ELSE @,
                   !.m_requestStreamChange = TRUE,
                   !.attached = attachOk]

\* sendStreamChange, lines 245-249: the bundle of the demuxers, whose parsers
\* have found the codec parameters
demuxerBundle(s, v) ==
    [i \in DOMAIN s.m_demuxers |-> [s.m_demuxers[i] EXCEPT !.params = v.params]]

\* the parsers of the demuxers get data: the pids they listen to are carried
Carried(s, v) ==
    \A i \in DOMAIN s.m_demuxers :
        s.m_demuxers[i].type = "H264" => s.m_demuxers[i].pid = v.vpid

(***************************************************************************)
(* StreamController                                                        *)
(***************************************************************************)
NoOpen ==
    [uid |-> 0, devFree |-> FALSE, tuneOk |-> FALSE, attachOk |-> FALSE,
     timerSwitch |-> FALSE, timerOpen |-> FALSE, switchStatus |-> ""]

Reply(cmd, kind, status, payload, open) ==
    [cmd |-> cmd, kind |-> kind, status |-> status, payload |-> payload,
     open |-> open]

\* findChannelByUid(Channels, uid): the channel with that unique id, if any
findChannelByUid(uid) ==
    IF \E c \in Channels : c.uid = uid
    THEN CHOOSE c \in Channels : c.uid = uid
    ELSE NoChannel

\* the channel lookup of processOpen
ResolveChannel(uid) == findChannelByUid(uid)

\* a stopStreaming that forgets to delete the streamer
stopStreaming_leak(a, ptr) == a

\* stopStreaming: delete m_streamer
stopStreaming_alive(a, ptr) == a \ {ptr}

\* new LiveStreamer: the address of the new object
NewPointer(a) == CHOOSE i \in 1..(Cardinality(a) + 1) : i \notin a

\* processOpen, lines 125-134: the status after the timer loop
TimerOverride(status, timerRecording) ==
    IF status # "OK" /\ timerRecording THEN "RECRUNNING" ELSE status

\* processOpen, lines 80-88: the language fields of the request
OpenLanguage(c, lang) ==
    LET l == IF lang = <<>> THEN c.m_language ELSE lang[1]
        t == IF lang = <<>> THEN c.m_langStreamType ELSE lang[2]
    IN  [c EXCEPT !.m_language = l,
                  !.m_langStreamType = IF t = "NONE" THEN "AC3" ELSE t]

\* a stopStreaming that leaves m_streamer dangling
stopStreaming_dangling(ptr) == ptr

\* stopStreaming: m_streamer = NULL
stopStreaming_ptr(ptr) == NULL

\* a lock that is given to every thread that asks for it
CanLock_always(m) == TRUE

\* std::lock_guard<std::mutex> lock(m_mutex): the thread goes on when no
\* other thread holds the mutex
CanLock(m) == m = "free"

\* a command handler that does not look at m_streamer
HasSession_unchecked(c) == TRUE

\* processRequest, processPause, processSignal, processSeek: m_streamer is
\* not nullptr
HasSession(c) == c.m_streamer # NULL

\* processOpen, lines 109-113: the status for an unresolvable channel
UnresolvedStatus == "DATAINVALID"

\* a requestPacket that sends the envelope whatever its size
IsBigEnough_always(env) == TRUE

\* requestPacket, line 392: is the envelope big enough to be sent
IsBigEnough(env) == getPayloadLength(env) >= MIN_PACKET_SIZE

\* a seek that keeps the pending packet
seek_keepPacket(env) == env

\* LiveStreamer::seek, lines 450-452: remove the pending packet
seek_streamPacket(env) == NullPacket

\* the wire packets of the live stream
MuxPacket(n, len) == [id |-> n, len |-> len, kind |-> "MUXPKT"]

StreamChangePacket(n) == [id |-> n, len |-> StreamChangeLen, kind |-> "STREAMCHANGE"]

SignalInfoPacket(n) == [id |-> n, len |-> SignalInfoLen, kind |-> "SIGNALINFO"]

\* what the demuxer hands to sendStreamPacket: empty packets, packets that are
\* neither audio nor video, and audio/video access units, of which the video
\* ones are key frames (I) or not (P)
StreamPackets ==
    {[len |-> 0, content |-> "VIDEO", frameType |-> "I"],
     [len |-> 40000, content |-> "TELETEXT", frameType |-> "U"],
     [len |-> 40000, content |-> "VIDEO", frameType |-> "P"]}
    \cup [len : PktLens, content : {"VIDEO"}, frameType : {"I"}]
    \cup [len : {40000}, content : {"AUDIO"}, frameType : {"U"}]

\* sendStreamPacket, lines 192-199: is the packet skipped
IsSkipped(pkt) ==
    pkt.len = 0 \/ ~(pkt.content = "AUDIO" \/ pkt.content = "VIDEO")

\* a sendStreamPacket that does not ask the demuxers whether they are ready
SendsStreamChange_unready(s, pkt) ==
    ~IsSkipped(pkt) /\ s.m_requestStreamChange

\* sendStreamPacket, line 202: is a stream change sent first
SendsStreamChange(s, pkt) ==
    ~IsSkipped(pkt) /\ s.m_requestStreamChange /\ s.demuxReady

\* a sendStreamPacket that does not wait for a key frame
QueuesData_anyFrame(s, pkt) == ~IsSkipped(pkt)

\* sendStreamPacket, lines 207-233: is the packet queued
QueuesData(s, pkt) ==
    ~IsSkipped(pkt) /\ ~(s.m_waitForKeyFrame /\ pkt.frameType # "I")

(***************************************************************************)
(* Commands of the StreamController                                        *)
(***************************************************************************)
\* the environment of an OPEN: of the answers the hosting runtime would give,
\* those that processOpen and switchChannel do not ask for are left FALSE
OpenInputs(uid, devFree, tuneOk, attachOk, timerSwitch, timerOpen) ==
    /\ ResolveChannel(uid) = NoChannel => ~devFree /\ ~timerSwitch /\ ~timerOpen
    /\ tuneOk => devFree
    /\ attachOk => tuneOk
    /\ timerSwitch => ~devFree
    /\ timerOpen => ~attachOk

processOpen(uid, lang, devFree, tuneOk, attachOk, timerSwitch, timerOpen) ==
    /\ backing = "live"
    /\ CanLock(m_mutex)
    /\ OpenInputs(uid, devFree, tuneOk, attachOk, timerSwitch, timerOpen)
    /\ LET c1 == OpenLanguage(ctl, lang)
           a1 == stopStreaming_alive(alive, ctl.m_streamer)
           p1 == stopStreaming_ptr(ctl.m_streamer)
           channel == ResolveChannel(uid)
           ptr == NewPointer(a1)
           sw == switchChannelStatus(channel, devFree, tuneOk, attachOk, timerSwitch)
           ch == switchChannelCache(cache, channel, devFree, tuneOk, vdr)
       IN  IF channel = NoChannel
           THEN /\ ctl' = [c1 EXCEPT !.m_streamer = p1]
                /\ alive' = a1
                /\ streamer' = NoStreamer
                /\ UNCHANGED cache
                /\ response' = Reply("OPEN", "status", UnresolvedStatus, NullPacket,
                                     [NoOpen EXCEPT !.uid = uid])
           ELSE /\ ctl' = [c1 EXCEPT !.m_streamer = ptr]
                /\ alive' = a1 \cup {ptr}
                /\ streamer' = switchChannelState(NewStreamer, channel, devFree,
                                                  tuneOk, attachOk,
                                                  ChannelCache_lookup(ch, channel.uid))
                /\ cache' = ch
                /\ response' = Reply("OPEN", "status", TimerOverride(sw, timerOpen),
                                     NullPacket,
                                     [uid |-> uid, devFree |-> devFree,
                                      tuneOk |-> tuneOk, attachOk |-> attachOk,
                                      timerSwitch |-> timerSwitch,
                                      timerOpen |-> timerOpen, switchStatus |-> sw])
    /\ queue' = EmptyQueue
    /\ UNCHANGED <<backing, patpmt, item, vdr, fault, cc, m_mutex, produced, seeks, playerVars>>

processClose ==
    /\ backing = "live"
    /\ CanLock(m_mutex)
    /\ ctl' = [ctl EXCEPT !.m_streamer = stopStreaming_ptr(ctl.m_streamer)]
    /\ alive' = stopStreaming_alive(alive, ctl.m_streamer)
    /\ streamer' = NoStreamer
    /\ queue' = EmptyQueue
    /\ response' = Reply("CLOSE", "empty", "", NullPacket, NoOpen)
    /\ UNCHANGED <<backing, patpmt, item, cache, vdr, fault, cc, m_mutex, produced, seeks, playerVars>>

\* processRequest up to the lock taken by LiveStreamer::requestPacket and the
\* creation of the payload packet
processRequest ==
    /\ backing = "live"
    /\ CanLock(m_mutex)
    /\ IF ~HasSession(ctl)
       THEN /\ response' = Reply("REQUEST", "none", "", NullPacket, NoOpen)
            /\ UNCHANGED <<streamer, m_mutex>>
       ELSE /\ m_mutex' = "requestPacket"
            /\ streamer' = [streamer EXCEPT !.m_streamPacket =
                               IF @.isNull THEN NewEnvelope(EnvelopeHeaderLen) ELSE @]
            /\ UNCHANGED response
    /\ UNCHANGED <<backing, patpmt, item, cache, vdr, fault, cc, ctl, alive, queue, produced, seeks, playerVars>>

\* one pass of the loop of LiveStreamer::requestPacket, or its exit, and the
\* reply processRequest builds from the result
requestPacket ==
    /\ backing = "live"
    /\ m_mutex = "requestPacket"
    /\ IF LiveQueue_canRead(queue)
       THEN LET env == AppendSub(streamer.m_streamPacket, LiveQueue_front(queue), seeks)
            IN  /\ queue' = LiveQueue_advance(queue)
                /\ IF IsBigEnough(env)
                   THEN /\ streamer' = [streamer EXCEPT !.m_streamPacket = NullPacket]
                        /\ response' = Reply("REQUEST", "envelope", "", env, NoOpen)
                        /\ m_mutex' = "free"
                   ELSE /\ streamer' = [streamer EXCEPT !.m_streamPacket = env]
                        /\ UNCHANGED <<response, m_mutex>>
       ELSE /\ m_mutex' = "free"
            /\ UNCHANGED queue
            /\ IF queue.paused
               THEN /\ streamer' = [streamer EXCEPT !.m_streamPacket = NullPacket]
                    /\ response' = Reply("REQUEST", "envelope", "",
                                         streamer.m_streamPacket, NoOpen)
               ELSE /\ response' = Reply("REQUEST", "empty", "", NullPacket, NoOpen)
                    /\ UNCHANGED streamer
    /\ UNCHANGED <<backing, patpmt, item, cache, vdr, fault, cc, ctl, alive, produced, seeks, playerVars>>

processPause(on) ==
    /\ backing = "live"
    /\ m_mutex # "requestPacket"
    /\ IF ~HasSession(ctl)
       THEN /\ response' = Reply("PAUSE", "none", "", NullPacket, NoOpen)
            /\ UNCHANGED queue
       ELSE /\ queue' = [queue EXCEPT !.paused = on]
            /\ response' = Reply("PAUSE", "empty", "", NullPacket, NoOpen)
    /\ UNCHANGED <<backing, patpmt, item, cache, vdr, fault, cc, ctl, alive, streamer, m_mutex, produced, seeks, playerVars>>

\* requestSignalInfo, lines 269-277: does it queue signal information
SendsSignalInfo(s, q) ==
    ~(s.m_device = NoDevice \/ ~s.attached) /\ ~q.paused

processSignal ==
    /\ backing = "live"
    /\ m_mutex # "requestPacket"
    /\ IF HasSession(ctl) /\ SendsSignalInfo(streamer, queue)
       THEN /\ produced < MaxPackets
            /\ produced' = produced + 1
            /\ queue' = LiveQueue_queue(queue, SignalInfoPacket(produced + 1))
       ELSE UNCHANGED <<queue, produced>>
    /\ response' = Reply("SIGNAL", "none", "", NullPacket, NoOpen)
    /\ UNCHANGED <<backing, patpmt, item, cache, vdr, fault, cc, ctl, alive, streamer, m_mutex, seeks, playerVars>>

processSeek(w) ==
    /\ backing = "live"
    /\ CanLock(m_mutex)
    /\ IF ~HasSession(ctl)
       THEN /\ response' = Reply("SEEK", "none", "", NullPacket, NoOpen)
            /\ UNCHANGED <<streamer, queue, seeks>>
       ELSE /\ seeks < MaxSeeks
            /\ seeks' = seeks + 1
            /\ streamer' = [streamer EXCEPT !.m_streamPacket = seek_streamPacket(@)]
            /\ queue' = LiveQueue_seek(queue, w)
            /\ response' = Reply("SEEK", "seek", "", NullPacket, NoOpen)
    /\ UNCHANGED <<backing, patpmt, item, cache, vdr, fault, cc, ctl, alive, m_mutex, produced, playerVars>>

(***************************************************************************)
(* The producer: the device delivers a TS packet to the attached receiver  *)
(***************************************************************************)
\* Receive -> m_demuxers.processTsPacket -> sendStreamPacket(pkt); the
\* demuxer set may have become ready with this TS packet
Receive(pkt, ready) ==
    /\ backing = "live"
    /\ streamer.attached
    /\ ready => Carried(streamer, vdr)
    /\ LET s1 == [streamer EXCEPT !.demuxReady = @ \/ ready]
           chg == SendsStreamChange(s1, pkt)
           dat == QueuesData(s1, pkt)
           n1 == IF chg THEN produced + 1 ELSE produced
           n2 == IF dat THEN n1 + 1 ELSE n1
           q1 == IF chg THEN LiveQueue_queue(queue, StreamChangePacket(n1)) ELSE queue
           q2 == IF dat THEN LiveQueue_queue(q1, MuxPacket(n2, pkt.len)) ELSE q1
       IN  /\ n2 <= MaxPackets
           /\ produced' = n2
           /\ queue' = q2
           /\ cache' = IF chg
                       THEN ChannelCache_add(cache, s1.m_uid, demuxerBundle(s1, vdr))
                       ELSE cache
           /\ streamer' = [s1 EXCEPT
                  !.m_requestStreamChange = IF chg THEN FALSE ELSE @,
                  !.m_waitForKeyFrame = IF dat THEN FALSE ELSE @]
    /\ UNCHANGED <<backing, patpmt, item, vdr, fault, cc, ctl, alive, m_mutex, seeks, response, playerVars>>

\* LiveStreamer::setWaitForKeyFrame, called on the streamer of the session
setWaitForKeyFrame(waitforiframe) ==
    /\ backing = "live"
    /\ HasSession(ctl)
    /\ streamer' = [streamer EXCEPT !.m_waitForKeyFrame = waitforiframe]
    /\ UNCHANGED <<backing, patpmt, item, cache, vdr, fault, cc, ctl, alive, queue,
                   m_mutex, produced, seeks, response, playerVars>>

\* the hosting runtime learns that the channel has another video pid, or the
\* broadcast goes on with other codec parameters
ChannelEdit(vpid, params) ==
    /\ backing = "live"
    /\ vdr' = [vpid |-> vpid, params |-> params]
    /\ vdr' # vdr
    /\ UNCHANGED <<backing, patpmt, item, cache, fault, cc, liveVars, playerVars>>

(***************************************************************************)
(* The ChannelChange callback, delivered by a thread of the hosting        *)
(* runtime that is not the thread of the commands                          *)
(***************************************************************************)
\* no callback under way; `result` is how the last one ended
NoCallback == [pc |-> "idle", target |-> NULL, channel |-> NoChannel, result |-> "none"]

\* the callback has returned
CallbackDone(result) == [NoCallback EXCEPT !.result = result]

\* a processChannelChange that does not ask whether the receiver is attached
IgnoresChannelChange_uidOnly(s, channel) == channel.uid # s.m_uid

\* LiveStreamer::processChannelChange, lines 420-426: the two early returns
IgnoresChannelChange(s, channel) ==
    ~s.attached \/ channel.uid # s.m_uid

\* StreamController::processChannelChange, line 184: m_streamer is read
\* without m_lock
ChannelChangeCall(channel) ==
    /\ backing = "live"
    /\ cc.pc = "idle"
    /\ ctl.m_streamer # NULL
    /\ cc' = [pc |-> "call", target |-> ctl.m_streamer, channel |-> channel,
              result |-> "none"]
    /\ UNCHANGED <<backing, patpmt, item, cache, vdr, fault, liveVars, playerVars>>

\* m_streamer->processChannelChange(Channel) on a streamer that has been
\* deleted since line 184: the process is ended, or the call goes unnoticed
ChannelChangeDeleted ==
    /\ backing = "live"
    /\ cc.pc = "call"
    /\ cc.target \notin alive
    /\ fault' = "use after free"
    /\ cc' = CallbackDone("deleted")
    /\ backing' \in {"live", "crashed"}
    /\ UNCHANGED <<patpmt, item, cache, vdr, liveVars, playerVars>>

\* LiveStreamer::processChannelChange, lines 418-430: lock, the two checks,
\* detach
ChannelChangeDetach ==
    /\ backing = "live"
    /\ cc.pc = "call"
    /\ cc.target \in alive
    /\ CanLock(m_mutex)
    /\ IF IgnoresChannelChange(streamer, cc.channel)
       THEN /\ cc' = CallbackDone("ignored")
            /\ UNCHANGED <<streamer, m_mutex>>
       ELSE /\ cc' = [cc EXCEPT !.pc = "switch"]
            /\ m_mutex' = "processChannelChange"
            /\ streamer' = [streamer EXCEPT !.m_device = NoDevice, !.attached = FALSE]
    /\ UNCHANGED <<backing, patpmt, item, cache, vdr, fault, ctl, alive, queue, produced, seeks,
                   response, playerVars>>

\* LiveStreamer::processChannelChange, line 431: switchChannel, unlock
ChannelChangeSwitch(devFree, tuneOk, attachOk) ==
    /\ backing = "live"
    /\ cc.pc = "switch"
    /\ tuneOk => devFree
    /\ attachOk => tuneOk
    /\ LET ch == switchChannelCache(cache, cc.channel, devFree, tuneOk, vdr)
       IN  /\ cache' = ch
           /\ streamer' = switchChannelState(streamer, cc.channel, devFree, tuneOk,
                                             attachOk,
                                             ChannelCache_lookup(ch, cc.channel.uid))
    /\ m_mutex' = "free"
    /\ cc' = CallbackDone("switched")
    /\ UNCHANGED <<backing, patpmt, item, vdr, fault, ctl, alive, queue, produced, seeks,
                   response, playerVars>>

(***************************************************************************)
(* StreamBundle and PacketPlayer::createFromPatPmt                         *)
(***************************************************************************)
\* StreamInfo(pid, type)
StreamInfo(pid, type) == [pid |-> pid, type |-> type]

\* StreamBundle::addStream: a stream of type none is dropped; the bundle is
\* keyed by pid, so a stream with a pid already present takes its place
addStream(bundle, s) ==
    IF s.type = "NONE" THEN bundle
    ELSE IF \E i \in DOMAIN bundle : bundle[i].pid = s.pid
    THEN [i \in DOMAIN bundle |-> IF bundle[i].pid = s.pid THEN s ELSE bundle[i]]
    ELSE Append(bundle, s)

\* createFromPatPmt, lines 341-344: 0x02, 0x1b, 0x24
VideoType(vtype) ==
    IF vtype = 2 THEN "MPEG2VIDEO"
    ELSE IF vtype = 27 THEN "H264"
    ELSE IF vtype = 36 THEN "H265"
    ELSE "NONE"

\* a descriptor mapping that takes every unknown descriptor for AC3
DolbyType_ac3Default(dtype) ==
    IF dtype = 122 THEN "EAC3" ELSE "AC3"

\* createFromPatPmt, lines 350-352: 0x6A, 0x7A
DolbyType(dtype) ==
    IF dtype = 106 THEN "AC3"
    ELSE IF dtype = 122 THEN "EAC3"
    ELSE "NONE"

\* an audio mapping that takes AAC for LATM
AudioType_aacAsLatm(atype) ==
    IF atype = 4 THEN "MPEG2AUDIO"
    ELSE IF atype = 3 THEN "MPEG2AUDIO"
    ELSE IF atype = 15 THEN "LATM"
    ELSE IF atype = 17 THEN "LATM"
    ELSE "NONE"

\* createFromPatPmt, lines 360-364: 0x04, 0x03, 0x0f, 0x11
AudioType(atype) ==
    IF atype = 4 THEN "MPEG2AUDIO"
    ELSE IF atype = 3 THEN "MPEG2AUDIO"
    ELSE IF atype = 15 THEN "AAC"
    ELSE IF atype = 17 THEN "LATM"
    ELSE "NONE"

\* the loops of createFromPatPmt over the zero-terminated pid arrays
RECURSIVE AddDolby(_, _)
AddDolby(bundle, d) ==
    IF d = <<>> THEN bundle
    ELSE AddDolby(addStream(bundle, StreamInfo(Head(d).pid, DolbyType(Head(d).type))),
                  Tail(d))

RECURSIVE AddAudio(_, _)
AddAudio(bundle, a) ==
    IF a = <<>> THEN bundle
    ELSE AddAudio(addStream(bundle, StreamInfo(Head(a).pid, AudioType(Head(a).type))),
                  Tail(a))

RECURSIVE AddSubtitles(_, _)
AddSubtitles(bundle, sp) ==
    IF sp = <<>> THEN bundle
    ELSE AddSubtitles(addStream(bundle, StreamInfo(Head(sp).pid, "DVBSUB")), Tail(sp))

\* PacketPlayer::createFromPatPmt
createFromPatPmt(pp) ==
    IF ~pp.hasVersions THEN <<>>
    ELSE LET v == addStream(<<>>, StreamInfo(pp.vpid, VideoType(pp.vtype)))
             d == AddDolby(v, pp.dpids)
             a == AddAudio(d, pp.apids)
         IN  AddSubtitles(a, pp.spids)

\* the entries of a pid array of the parser: entry i has pid base + i
PidArray(base, types) ==
    [i \in DOMAIN types |-> [pid |-> base + i, type |-> types[i]]]

\* the sequences over S of length at most n
SeqUpTo(S, n) == UNION {[1..k -> S] : k \in 0..n}

\* a parser that has seen no PAT/PMT
EmptyPatPmt ==
    [hasVersions |-> FALSE, vpid |-> 0, vtype |-> 0,
     dpids |-> <<>>, apids |-> <<>>, spids |-> <<>>]

\* the PAT/PMT of the recordings that are played: H.264 video and AAC audio
RecordingPatPmt ==
    [hasVersions |-> TRUE, vpid |-> 100, vtype |-> 27,
     dpids |-> <<>>, apids |-> PidArray(300, <<15>>), spids |-> <<>>]

\* what a parser may hold after ParsePatPmt: no video pid or a video stream,
\* each kind of stream with recognised type codes and with an unknown one (6)
PatPmtInputs ==
    {EmptyPatPmt} \cup
    {[hasVersions |-> TRUE, vpid |-> v[1], vtype |-> v[2],
      dpids |-> PidArray(200, d), apids |-> PidArray(300, a),
      spids |-> PidArray(400, sp)] :
        v \in {<<0, 0>>, <<100, 2>>, <<100, 27>>, <<100, 36>>, <<100, 6>>},
        d \in SeqUpTo({106, 122, 6}, MaxStreams),
        a \in SeqUpTo({3, 4, 15, 17, 6}, MaxStreams),
        sp \in SeqUpTo({0}, MaxStreams)}

\* no StreamBundle returned yet
NoItem == [returned |-> FALSE, streams |-> <<>>]

\* a call of createFromPatPmt on what the parser holds
CreateFromPatPmt ==
    /\ backing = "patpmt"
    /\ ~item.returned
    /\ item' = [returned |-> TRUE, streams |-> createFromPatPmt(patpmt)]
    /\ UNCHANGED <<backing, patpmt, cache, vdr, fault, cc, liveVars, playerVars>>

(***************************************************************************)
(* PacketPlayer                                                            *)
(***************************************************************************)
\* the fields of a PacketPlayer right after its constructor; `remaining` is
\* the number of TS packets of the current block not yet given to the demuxer,
\* `skipped` the number of "pre-queue full - skipping packet" lines logged,
\* `scSince` whether a stream change was queued since the last PMT update,
\* `shortReads` the number of "smaller than TS packet size" lines logged
NewPlayer(total) ==
    [m_position |-> 0, m_totalLength |-> total,
     m_patVersion |-> -1, m_pmtVersion |-> -1,
     m_requestStreamChange |-> TRUE, demuxReady |-> FALSE,
     m_queue |-> <<>>, m_preQueue |-> <<>>, m_streamPacket |-> NullPacket,
     m_startTime |-> 0, m_endTime |-> 0, m_demuxers |-> <<>>,
     produced |-> 0, remaining |-> 0,
     seeks |-> 0, updates |-> 0, scSince |-> FALSE, skipped |-> 0,
     shortReads |-> 0]

\* a player in the middle of a long recording, inside requestPacket: the PMT
\* was found, the demuxers are not ready yet, and the stream packets made so
\* far wait in the pre-queue
WarmPlayer ==
    [NewPlayer(64 * TS_SIZE) EXCEPT
        !.m_position = 60 * TS_SIZE,
        !.m_patVersion = 0, !.m_pmtVersion = 0,
        !.m_demuxers = createFromPatPmt(RecordingPatPmt),
        !.updates = 1,
        !.m_streamPacket = NewEnvelope(0),
        !.produced = PreQueueLimit - 1,
        !.m_preQueue = [i \in 1..(PreQueueLimit - 1) |->
                          [id |-> i, len |-> 40000, kind |-> "MUXPKT",
                           made |-> 0, gen |-> 1]]]

\* a wire packet of the player, with the number of seeks and of PMT updates
\* that had happened when it was made
PlayerPacket(pl, p) ==
    [id |-> p.id, len |-> p.len, kind |-> p.kind,
     made |-> pl.seeks, gen |-> pl.updates]

\* what the demuxer hands to onStreamPacket
PlayerStreamPackets ==
    {[len |-> 40000, content |-> "TELETEXT", frameType |-> "U"]}
    \cup [len : PktLens, content : {"VIDEO"}, frameType : {"I"}]

\* an onStreamPacket that queues the pre-queued packets before the stream
\* change
onStreamPacket_change_late(pl) ==
    IF pl.m_requestStreamChange /\ pl.demuxReady
    THEN [pl EXCEPT !.m_requestStreamChange = FALSE,
                    !.produced = @ + 1,
                    !.scSince = TRUE,
                    !.m_queue = (@ \o pl.m_preQueue)
                                \o <<PlayerPacket(pl, StreamChangePacket(pl.produced + 1))>>,
                    !.m_preQueue = <<>>]
    ELSE pl

\* onStreamPacket, lines 55-78: the stream change and the pre-queued packets
\* go to the queue
onStreamPacket_change(pl) ==
    IF pl.m_requestStreamChange /\ pl.demuxReady
    THEN [pl EXCEPT !.m_requestStreamChange = FALSE,
                    !.produced = @ + 1,
                    !.scSince = TRUE,
                    !.m_queue = (@ \o <<PlayerPacket(pl, StreamChangePacket(pl.produced + 1))>>)
                                \o pl.m_preQueue,
                    !.m_preQueue = <<>>]
    ELSE pl

\* a pre-queue that is never full
PreQueueFull_never(pl) == FALSE

\* onStreamPacket, line 112: is the pre-queue full
PreQueueFull(pl) == Len(pl.m_preQueue) > PreQueueLimit

\* onStreamPacket, lines 80-122: the stream packet is skipped, pre-queued,
\* dropped or queued
onStreamPacket_data(pl, pkt) ==
    IF pkt.content # "VIDEO" /\ pkt.content # "AUDIO" THEN pl
    ELSE IF ~pl.demuxReady
    THEN IF PreQueueFull(pl)
         THEN [pl EXCEPT !.skipped = @ + 1]
         ELSE [pl EXCEPT !.produced = @ + 1,
                         !.m_preQueue = Append(@,
                             PlayerPacket(pl, MuxPacket(pl.produced + 1, pkt.len)))]
    ELSE [pl EXCEPT !.produced = @ + 1,
                    !.m_queue = Append(@,
                        PlayerPacket(pl, MuxPacket(pl.produced + 1, pkt.len)))]

onStreamPacket(pl, pkt) == onStreamPacket_data(onStreamPacket_change(pl), pkt)

\* RecPlayer::getBlock: the number of bytes read at pos
getBlock(pl, amount) ==
    IF pl.m_totalLength - pl.m_position < amount
    THEN pl.m_totalLength - pl.m_position
    ELSE amount

\* getNextPacket, lines 177-192: a PAT/PMT with version v was found
\* a player that takes every PMT for a new one
IsNewPmt_always(pl, v) == TRUE

\* getNextPacket, line 181: is the PMT version a new one
IsNewPmt(pl, v) == v > pl.m_pmtVersion

UpdatePmt(pl, v) ==
    IF v >= 0 /\ IsNewPmt(pl, v)
    THEN [pl EXCEPT !.m_patVersion = 0, !.m_pmtVersion = v,
                    !.m_demuxers = createFromPatPmt(patpmt),
                    !.demuxReady = FALSE, !.m_requestStreamChange = TRUE,
                    !.updates = @ + 1, !.scSince = FALSE]
    ELSE IF v >= 0 THEN [pl EXCEPT !.m_patVersion = 0]
    ELSE pl

\* MsgPacket::eop() of an envelope that is only written to
eop(env) == getPayloadLength(env) = 0

\* requestPacket, lines 235-256: start/end time and one more sub-packet
requestPacket_times(pl) ==
    IF pl.m_endTime = 0
    THEN LET start == IF pl.m_startTime = 0 THEN NowMs ELSE pl.m_startTime
         IN  [pl EXCEPT !.m_startTime = start,
                        !.m_endTime = start + RecLengthSec * 1000]
    ELSE pl

requestPacket_append(env, p) ==
    AppendSub(IF eop(env) THEN [env EXCEPT !.hdr = EnvelopeHeaderLen] ELSE env, p, 0)

\* getPacket, lines 208-217: does getPacket give up without calling
\* getNextPacket
EndOfFile(pl) == pl.m_position >= pl.m_totalLength

\* PacketPlayer::clearQueue
clearQueue(pl) == [pl EXCEPT !.m_queue = <<>>]

\* PacketPlayer::reset
reset(pl) ==
    clearQueue([pl EXCEPT !.m_demuxers = <<>>, !.demuxReady = FALSE,
                          !.m_requestStreamChange = TRUE,
                          !.m_patVersion = -1, !.m_pmtVersion = -1,
                          !.m_streamPacket = NullPacket])

\* the quotient of the division of C++, which truncates towards zero
CDiv(a, b) ==
    LET q == (IF a < 0 THEN -a ELSE a) \div (IF b < 0 THEN -b ELSE b)
    IN  IF (a < 0) = (b < 0) THEN q ELSE -q

\* a timestamp that is rounded up to the next millisecond
onStreamPacket_currentTime_roundUp(pl, startTime, streamPosition) ==
    startTime + CDiv(RecLengthSec * 1000 * streamPosition + pl.m_totalLength - 1,
                     pl.m_totalLength)

\* onStreamPacket, lines 103-104: the timestamp put on a packet of the
\* stream position, by a player with the start time startTime
onStreamPacket_currentTime(pl, startTime, streamPosition) ==
    startTime + CDiv(RecLengthSec * 1000 * streamPosition, pl.m_totalLength)

\* filePositionFromClock, lines 300-301
durationSinceStartMs(pl, wallclockTimeMs) == wallclockTimeMs - pl.m_startTime

durationMs(pl) == pl.m_endTime - pl.m_startTime

\* filePositionFromClock, line 303, for a duration that is not zero
filePositionFromClock(pl, wallclockTimeMs) ==
    CDiv(pl.m_totalLength * durationSinceStartMs(pl, wallclockTimeMs), durationMs(pl))

\* seek, lines 311-317
ClampPosition(pl, pos) ==
    IF pos >= pl.m_totalLength THEN pl.m_totalLength
    ELSE IF pos < 0 THEN 0
    ELSE pos

\* PacketPlayer::seek with the file position pos
seekTo(pl, pos) ==
    reset([pl EXCEPT !.m_position = ClampPosition(pl, pos), !.seeks = @ + 1])

\* PacketPlayer::seek, called between two calls of requestPacket. A duration
\* of zero makes line 303 an integer division by zero: the process is ended
\* by the trap, or the quotient is 0 where the division does not trap
PlayerSeek(wallclockTimeMs) ==
    /\ backing = "recorded"
    /\ playerPc = "idle"
    /\ player.seeks < MaxSeeks
    /\ IF durationMs(player) = 0
       THEN /\ fault' = "division by zero"
            /\ \/ /\ backing' = "crashed"
                  /\ UNCHANGED player
               \/ /\ player' = seekTo(player, 0)
                  /\ UNCHANGED backing
       ELSE /\ player' = seekTo(player, filePositionFromClock(player, wallclockTimeMs))
            /\ UNCHANGED <<backing, fault>>
    /\ UNCHANGED <<patpmt, item, cache, vdr, cc, liveVars, playerPc, playerRet>>

\* PacketPlayer::requestPacket up to its first call of getPacket
PlayerRequestPacket ==
    /\ backing = "recorded"
    /\ playerPc = "idle"
    /\ playerPc' = "getPacket"
    /\ player' = [player EXCEPT !.m_streamPacket =
                     IF @.isNull THEN NewEnvelope(0) ELSE @]
    /\ UNCHANGED <<backing, patpmt, item, cache, vdr, fault, cc, liveVars, playerRet>>

\* getPacket finds the end of the file: requestPacket returns nullptr
PlayerEndOfFile ==
    /\ backing = "recorded"
    /\ playerPc = "getPacket"
    /\ EndOfFile(player)
    /\ playerPc' = "idle"
    /\ playerRet' = NullPacket
    /\ UNCHANGED <<backing, patpmt, item, cache, vdr, fault, cc, liveVars, player>>

\* getNextPacket returns the front of the queue, and requestPacket adds it to
\* the envelope
PlayerTakePacket ==
    /\ backing = "recorded"
    /\ playerPc = "getPacket"
    /\ ~EndOfFile(player)
    /\ player.m_queue # <<>>
    /\ LET p1 == requestPacket_times(player)
           env == requestPacket_append(p1.m_streamPacket, Head(p1.m_queue))
       IN  IF IsBigEnough(env)
           THEN /\ player' = [p1 EXCEPT !.m_queue = Tail(@),
                                        !.m_streamPacket = NullPacket]
                /\ playerRet' = env
                /\ playerPc' = "idle"
           ELSE /\ player' = [p1 EXCEPT !.m_queue = Tail(@),
                                        !.m_streamPacket = env]
                /\ UNCHANGED <<playerRet, playerPc>>
    /\ UNCHANGED <<backing, patpmt, item, cache, vdr, fault, cc, liveVars>>

\* getNextPacket reads the next block: TS sync, PAT/PMT
PlayerReadBlock(offset, pmt) ==
    /\ backing = "recorded"
    /\ playerPc = "getPacket"
    /\ ~EndOfFile(player)
    /\ player.m_queue = <<>>
    /\ LET bytesRead == getBlock(player, maxPacketCount * TS_SIZE)
           count == (bytesRead - offset) \div TS_SIZE
       IN  /\ offset = 0 \/ offset <= bytesRead - TS_SIZE
           /\ IF bytesRead - offset < TS_SIZE
              THEN /\ player.shortReads < MaxShortReads
                   /\ player' = [player EXCEPT !.m_position = @ + offset,
                                                !.shortReads = @ + 1]
                   /\ UNCHANGED playerPc
              ELSE /\ player' = [UpdatePmt(player, pmt) EXCEPT
                                    !.m_position = @ + offset + TS_SIZE * count,
                                    !.remaining = count]
                   /\ playerPc' = "demux"
    /\ UNCHANGED <<backing, patpmt, item, cache, vdr, fault, cc, liveVars, playerRet>>

\* m_demuxers.processTsPacket for the next TS packet of the block: the
\* demuxer set may become ready, may report a stream change and may hand
\* out stream packets
PlayerDemux(emit, ready, change) ==
    /\ backing = "recorded"
    /\ playerPc = "demux"
    /\ emit # <<>> \/ ready \/ change => player.m_pmtVersion >= 0
    /\ LET p1 == [player EXCEPT !.demuxReady = @ \/ ready,
                                !.m_requestStreamChange = @ \/ change,
                                !.remaining = @ - 1]
           p2 == IF emit = <<>> THEN p1 ELSE onStreamPacket(p1, emit[1])
       IN  /\ player' = p2
           /\ playerPc' = IF p2.remaining = 0 THEN "getPacket" ELSE "demux"
    /\ UNCHANGED <<backing, patpmt, item, cache, vdr, fault, cc, liveVars, playerRet>>

NextPlayer ==
    \/ PlayerRequestPacket
    \/ PlayerEndOfFile
    \/ PlayerTakePacket
    \/ \E offset \in SyncOffsets, pmt \in PmtInputs : PlayerReadBlock(offset, pmt)
    \/ \E emit \in {<<>>} \cup {<<x>> : x \in PlayerStreamPackets},
          ready, change \in BOOLEAN : PlayerDemux(emit, ready, change)

Init ==
    /\ backing \in {"live", "recorded", "patpmt"}
    /\ ctl = [m_streamer |-> NULL, m_language |-> "", m_langStreamType |-> "AC3"]
    /\ alive = {}
    /\ streamer = NoStreamer
    /\ queue = EmptyQueue
    /\ m_mutex = "free"
    /\ produced = 0
    /\ seeks = 0
    /\ response = Reply("", "none", "", NullPacket, NoOpen)
    /\ player \in {NewPlayer(t) : t \in TotalLengths} \cup {WarmPlayer}
    /\ backing # "recorded" => player = NewPlayer(4 * TS_SIZE)
    /\ playerPc = IF player = WarmPlayer THEN "getPacket" ELSE "idle"
    /\ playerRet = NullPacket
    /\ patpmt \in PatPmtInputs
    /\ backing # "patpmt" => patpmt = RecordingPatPmt
    /\ item = NoItem
    /\ cc = NoCallback
    /\ fault = "none"
    /\ cache = NoCache
    /\ vdr = [vpid |-> 100, params |-> 1]

NextLive ==
    \/ \E uid \in RequestUids, lang \in LangInputs,
          devFree, tuneOk, attachOk, timerSwitch, timerOpen \in BOOLEAN :
          processOpen(uid, lang, devFree, tuneOk, attachOk, timerSwitch, timerOpen)
    \/ processClose
    \/ processRequest
    \/ requestPacket
    \/ \E on \in BOOLEAN : processPause(on)
    \/ processSignal
    \/ \E w \in 0..MaxPackets : processSeek(w)
    \/ \E pkt \in StreamPackets, ready \in BOOLEAN : Receive(pkt, ready)

Next == NextLive \/ NextPlayer \/ CreateFromPatPmt

Spec == Init /\ [][Next]_vars

(***************************************************************************)
(* The recorded player with seeks: one recording, blocks that need no TS   *)
(* sync, no stream change reported by the demuxers                         *)
(***************************************************************************)
InitSeek ==
    /\ Init
    /\ backing = "recorded"
    /\ player = NewPlayer(4 * TS_SIZE)

NextSeek ==
    \/ PlayerRequestPacket
    \/ PlayerEndOfFile
    \/ PlayerTakePacket
    \/ \E pmt \in PmtInputs : PlayerReadBlock(0, pmt)
    \/ \E emit \in {<<>>} \cup {<<x>> : x \in PlayerStreamPackets},
          ready \in BOOLEAN : PlayerDemux(emit, ready, FALSE)
    \/ \E w \in SeekClocks : PlayerSeek(w)

SpecSeek == InitSeek /\ [][NextSeek]_vars

(***************************************************************************)
(* The seek to the timestamp of a packet: a player that has delivered      *)
(* packets, so that requestPacket has set its start and end time, and that *)
(* has one seek left, is asked to seek to a timestamp that onStreamPacket  *)
(* has put on a packet                                                     *)
(***************************************************************************)
\* lengths of the recordings: below and above one byte per millisecond
RoundTripLengths == {752, 800, 2256}

\* the timestamps onStreamPacket puts on the packets of the recording: with
\* the start time of the player, and with the start time 0 of a player whose
\* requestPacket has not yet seen a packet
Timestamps(pl) ==
    {onStreamPacket_currentTime(pl, start, streamPosition) :
        start \in {0, pl.m_startTime}, streamPosition \in 0..pl.m_totalLength}

InitRoundTrip ==
    /\ backing = "recorded"
    /\ ctl = [m_streamer |-> NULL, m_language |-> "", m_langStreamType |-> "AC3"]
    /\ alive = {}
    /\ streamer = NoStreamer
    /\ queue = EmptyQueue
    /\ m_mutex = "free"
    /\ produced = 0
    /\ seeks = 0
    /\ response = Reply("", "none", "", NullPacket, NoOpen)
    /\ player \in {[requestPacket_times(NewPlayer(t)) EXCEPT !.seeks = MaxSeeks - 1] :
                       t \in RoundTripLengths}
    /\ playerPc = "idle"
    /\ playerRet = NullPacket
    /\ patpmt = RecordingPatPmt
    /\ item = NoItem
    /\ cc = NoCallback
    /\ fault = "none"
    /\ cache = NoCache
    /\ vdr = [vpid |-> 100, params |-> 1]

NextRoundTrip == \E w \in Timestamps(player) : PlayerSeek(w)

SpecRoundTrip == InitRoundTrip /\ [][NextRoundTrip]_vars

(***************************************************************************)
(* The live session with its three threads: the commands of the client,    *)
(* the receiver of the device, the ChannelChange callback                  *)
(***************************************************************************)
InitThreads == Init /\ backing = "live"

NextThreads ==
    \/ \E devFree, tuneOk, attachOk \in BOOLEAN :
          processOpen(101, <<>>, devFree, tuneOk, attachOk, FALSE, FALSE)
    \/ processClose
    \/ processRequest
    \/ requestPacket
    \/ \E w \in 0..MaxPackets : processSeek(w)
    \/ \E pkt \in StreamPackets, ready \in BOOLEAN : Receive(pkt, ready)
    \/ \E channel \in Channels : ChannelChangeCall(channel)
    \/ ChannelChangeDeleted
    \/ ChannelChangeDetach
    \/ \E devFree, tuneOk, attachOk \in BOOLEAN :
          ChannelChangeSwitch(devFree, tuneOk, attachOk)

SpecThreads == InitThreads /\ [][NextThreads]_vars

(***************************************************************************)
(* The live session of a channel whose data change while it is streamed    *)
(***************************************************************************)
InitCache == Init /\ backing = "live"

NextCache ==
    \/ \E devFree, tuneOk, attachOk \in BOOLEAN :
          processOpen(101, <<>>, devFree, tuneOk, attachOk, FALSE, FALSE)
    \/ processClose
    \/ \E pkt \in StreamPackets, ready \in BOOLEAN : Receive(pkt, ready)
    \/ \E vpid \in ChannelPids, params \in ChannelParams : ChannelEdit(vpid, params)

SpecCache == InitCache /\ [][NextCache]_vars

(***************************************************************************)
(* The live session that is told to wait for a key frame                   *)
(***************************************************************************)
InitKeyFrame == Init /\ backing = "live"

NextKeyFrame ==
    \/ \E devFree, tuneOk, attachOk \in BOOLEAN :
          processOpen(101, <<>>, devFree, tuneOk, attachOk, FALSE, FALSE)
    \/ \E waitforiframe \in BOOLEAN : setWaitForKeyFrame(waitforiframe)
    \/ \E pkt \in StreamPackets, ready \in BOOLEAN : Receive(pkt, ready)
    \/ processRequest
    \/ requestPacket

SpecKeyFrame == InitKeyFrame /\ [][NextKeyFrame]_vars

(***************************************************************************)
(* Properties                                                              *)
(***************************************************************************)
\* the OPEN whose reply is `response` named a uid that is the unique id of a
\* channel
OpenResolvedByUid == \E c \in Channels : c.uid = response.open.uid

\* the OPEN whose reply is `response` named a uid that is the ordinal number
\* of a channel
OpenResolvedByNumber == \E c \in Channels : c.number = response.open.uid

\* C1: the only LiveStreamer alive is the one m_streamer points to: no
\* streamer created by an earlier OPEN survives a later OPEN or CLOSE.
C1_AtMostOneSession == alive = {ctl.m_streamer} \ {NULL}

\* an OPEN has replaced a session that had been delivering packets
C1_Witness ==
    /\ response.cmd = "OPEN"
    /\ produced > 0
    /\ alive = {ctl.m_streamer}
    /\ ctl.m_streamer # NULL

\* C2: an OPEN whose uid resolves to no channel replies DATAINVALID and leaves
\* no session, also when a session was active before.
C2_UnresolvedOpen ==
    (response.cmd = "OPEN" /\ ~OpenResolvedByUid)
        => /\ response.status = "DATAINVALID"
           /\ ctl.m_streamer = NULL
           /\ alive = {}

\* an unresolvable OPEN after a session that had been delivering packets
C2_Witness ==
    /\ response.cmd = "OPEN"
    /\ ~OpenResolvedByUid
    /\ produced > 0
    /\ response.status = "DATAINVALID"

\* C3: an OPEN of a resolvable channel replies RECRUNNING whenever no device
\* could be acquired and a timer is recording.
C3_RecRunning ==
    (/\ response.cmd = "OPEN"
     /\ OpenResolvedByUid
     /\ ~response.open.devFree
     /\ response.open.timerSwitch \/ response.open.timerOpen)
        => response.status = "RECRUNNING"

C3_Witness ==
    /\ response.cmd = "OPEN"
    /\ OpenResolvedByUid
    /\ ~response.open.devFree
    /\ response.open.timerSwitch
    /\ response.open.switchStatus = "RECRUNNING"
    /\ response.status = "RECRUNNING"

\* C4: OPEN replies RECRUNNING only when no device was available and a timer
\* is recording; a tuning or attach failure keeps the status switchChannel
\* gave it, whether or not a timer is recording.
C4_RecRunningOnlyWithoutDevice ==
    response.cmd = "OPEN"
        => /\ response.status = "RECRUNNING"
                => /\ ~response.open.devFree
                   /\ response.open.timerSwitch \/ response.open.timerOpen
           /\ (OpenResolvedByUid /\ response.open.devFree)
                => response.status = response.open.switchStatus

\* C5: a failed attach on an acquired and tuned device gives ERROR, and
\* DATALOCKED is given only when no device is available and no timer is
\* recording.
C5_AttachFailureIsError ==
    response.cmd = "OPEN"
        => /\ (/\ response.open.devFree
               /\ response.open.tuneOk
               /\ ~response.open.attachOk)
                => /\ response.open.switchStatus = "ERROR"
                   /\ ~response.open.timerOpen => response.status = "ERROR"
           /\ response.open.switchStatus = "DATALOCKED"
                => ~response.open.devFree /\ ~response.open.timerSwitch

\* C6: with no session, SIGNAL, PAUSE and REQUEST give no reply and change
\* nothing of the controller or of a streamer.
C6_IdleNoOps ==
    [][(/\ ctl.m_streamer = NULL
        /\ \/ processSignal
           \/ processRequest
           \/ \E on \in BOOLEAN : processPause(on))
          => /\ response'.kind = "none"
             /\ UNCHANGED <<ctl, alive, streamer, queue, m_mutex, produced, seeks>>]_vars

\* a PAUSE was answered with nothing after a session had been closed
C6_Witness ==
    /\ ctl.m_streamer = NULL
    /\ response.cmd = "PAUSE"
    /\ response.kind = "none"
    /\ produced > 0

\* C7: OPEN falls back to the ordinal channel number when no channel has the
\* unique id; DATAINVALID is replied only when both lookups fail.
C7_FallbackToNumber ==
    response.cmd = "OPEN"
        => (response.status = "DATAINVALID"
               <=> ~OpenResolvedByUid /\ ~OpenResolvedByNumber)

\* LiveStreamer::requestPacket returns in this step
LiveReturn == m_mutex = "requestPacket" /\ m_mutex' = "free"

\* PacketPlayer::requestPacket returns in this step
PlayerReturn == playerPc = "getPacket" /\ playerPc' = "idle"

\* the packets of the LiveQueue not yet read
Unread(q) == SubSeq(q.entries, q.rd + 1, Len(q.entries))

\* the envelope after the packets pkts were added to it one by one
RECURSIVE Fold(_, _)
Fold(env, pkts) ==
    IF pkts = <<>> THEN env
    ELSE Fold(requestPacket_append(env, Head(pkts)), Tail(pkts))

\* the envelope reaches the threshold, and did not without its last sub-packet
ReachedAtLast(env) ==
    /\ env.subs # <<>>
    /\ getPayloadLength(env) >= MIN_PACKET_SIZE
    /\ getPayloadLength([env EXCEPT !.subs = SubSeq(@, 1, Len(@) - 1)])
          < MIN_PACKET_SIZE

\* the sub-packets are in the order in which the live queue got them
InQueueOrder(env) ==
    \A i, j \in DOMAIN env.subs : i < j => env.subs[i].id < env.subs[j].id

\* the last sub-packet of the envelope is the packet p
EndsWith(env, p) == env.subs # <<>> /\ env.subs[Len(env.subs)].id = p.id

\* C8: when the queued sub-packets reach the threshold at sub-packet k,
\* requestPacket returns an envelope of exactly the sub-packets 1..k in order:
\* a returned envelope ends with the sub-packet that reached the threshold
\* (unless the paused live queue ran empty), and requestPacket returns none
\* only if the pending envelope and the queued sub-packets together stay
\* below the threshold.
C8_EnvelopeOfFirstK ==
    [][/\ LiveReturn =>
             IF response'.kind = "envelope"
             THEN \/ ReachedAtLast(response'.payload) /\ InQueueOrder(response'.payload)
                  \/ Unread(queue) = <<>>
             ELSE getPayloadLength(Fold(streamer.m_streamPacket, Unread(queue)))
                     < MIN_PACKET_SIZE
       /\ PlayerReturn =>
             IF ~playerRet'.isNull
             THEN ReachedAtLast(playerRet') /\ EndsWith(playerRet', Head(player.m_queue))
             ELSE getPayloadLength(Fold(player.m_streamPacket, player.m_queue))
                     < MIN_PACKET_SIZE]_vars

\* the part of C8 that is about the live streamer
C8_LivePart ==
    [][LiveReturn =>
             IF response'.kind = "envelope"
             THEN \/ ReachedAtLast(response'.payload) /\ InQueueOrder(response'.payload)
                  \/ Unread(queue) = <<>>
             ELSE getPayloadLength(Fold(streamer.m_streamPacket, Unread(queue)))
                     < MIN_PACKET_SIZE]_vars

\* the part of C8 that is about the envelopes the player returns
C8_PlayerEnvelopePart ==
    [][(PlayerReturn /\ ~playerRet'.isNull)
          => ReachedAtLast(playerRet') /\ EndsWith(playerRet', Head(player.m_queue))]_vars

\* C9 as stated: every envelope requestPacket returns has a payload of at
\* least 128 KiB, in every queue state.
C9_AlwaysMinimumSize ==
    [][/\ (LiveReturn /\ response'.kind = "envelope")
             => getPayloadLength(response'.payload) >= MIN_PACKET_SIZE
       /\ (PlayerReturn /\ ~playerRet'.isNull)
             => getPayloadLength(playerRet') >= MIN_PACKET_SIZE]_vars

\* C9 as amended: an envelope returned by the player has a payload of at
\* least 128 KiB, and so has one returned by the live streamer unless the
\* live queue is paused and has no packet left to read.
C9_MinimumSizeUnlessPaused ==
    [][/\ (LiveReturn /\ response'.kind = "envelope")
             => \/ getPayloadLength(response'.payload) >= MIN_PACKET_SIZE
                \/ queue.paused /\ Unread(queue) = <<>>
       /\ (PlayerReturn /\ ~playerRet'.isNull)
             => getPayloadLength(playerRet') >= MIN_PACKET_SIZE]_vars

\* the live streamer has returned an envelope of three sub-packets that
\* reached the threshold
C9_Witness ==
    /\ response.cmd = "REQUEST"
    /\ response.kind = "envelope"
    /\ Len(response.payload.subs) = 3
    /\ getPayloadLength(response.payload) >= MIN_PACKET_SIZE

\* C10: a seek leaves no pending envelope, and every sub-packet of an envelope
\* that requestPacket returns was read from the queue after the last seek.
C10_SeekDropsEnvelope ==
    [][/\ seeks' # seeks => streamer'.m_streamPacket.isNull
       /\ (LiveReturn /\ response'.kind = "envelope")
             => \A i \in DOMAIN response'.payload.subs :
                   response'.payload.subs[i].epoch = seeks]_vars

\* after a seek the live streamer has returned an envelope that begins with
\* a packet it had already read before the seek
C10_Witness ==
    /\ seeks > 0
    /\ response.cmd = "REQUEST"
    /\ response.kind = "envelope"
    /\ response.payload.subs # <<>>
    /\ response.payload.subs[1].epoch = seeks
    /\ response.payload.subs[1].id = 1
    /\ queue.rd > 1

\* the fields of the player that the constructor and reset() set
ResetView(pl) ==
    <<pl.m_patVersion, pl.m_pmtVersion, pl.m_demuxers, pl.demuxReady,
      pl.m_requestStreamChange, pl.m_streamPacket, pl.m_queue, pl.m_preQueue>>

\* PacketPlayer::seek returns in this step
SeekReturn == player'.seeks # player.seeks

\* C11: after a seek the PAT/PMT versions, the demuxer set, the stream-change
\* request, the pending envelope, the queue and the pre-queue are those of a
\* freshly constructed player, and no packet made before the seek is ever in
\* the output queue after it. Seeks whose position could not be computed
\* (duration of zero) are left to C15.
C11_SeekLikeColdStart ==
    [][/\ (SeekReturn /\ fault' = "none")
             => ResetView(player') = ResetView(NewPlayer(player.m_totalLength))
       /\ \A i \in DOMAIN player'.m_queue : player'.m_queue[i].made = player'.seeks]_vars

\* s is a prefix of t
IsPrefix(s, t) == Len(s) <= Len(t) /\ SubSeq(t, 1, Len(s)) = s

\* what the output queue got in this step
Queued == SubSeq(player'.m_queue, Len(player.m_queue) + 1, Len(player'.m_queue))

\* C12: while the demuxer set is not ready nothing goes to the output queue
\* and a stream packet goes to the end of the pre-queue; when the output
\* queue gets the pre-queued packets it gets the stream change first, then
\* the pre-queued packets in their order, then at most the packet that
\* triggered the flush; later packets follow one by one in production order.
C12_WarmupOrdering ==
    [][playerPc = "demux" =>
          /\ IsPrefix(player.m_queue, player'.m_queue)
          /\ ~player'.demuxReady =>
                /\ player'.m_queue = player.m_queue
                /\ IsPrefix(player.m_preQueue, player'.m_preQueue)
                /\ Len(player'.m_preQueue) <= Len(player.m_preQueue) + 1
          /\ player'.m_preQueue # player.m_preQueue /\ player'.demuxReady =>
                /\ player'.m_preQueue = <<>>
                /\ Queued # <<>>
                /\ Head(Queued).kind = "STREAMCHANGE"
                /\ IsPrefix(player.m_preQueue, Tail(Queued))
                /\ Len(Queued) <= Len(player.m_preQueue) + 2
                /\ Len(Queued) = Len(player.m_preQueue) + 2 =>
                      /\ Queued[Len(Queued)].kind = "MUXPKT"
                      /\ Queued[Len(Queued)].id = player'.produced
          /\ (player'.m_preQueue = player.m_preQueue /\ player'.demuxReady) =>
                /\ Len(Queued) <= 2
                /\ Len(Queued) = 2 => Queued[1].kind = "STREAMCHANGE"
                /\ Queued # <<>> /\ Queued[Len(Queued)].kind = "MUXPKT" =>
                      Queued[Len(Queued)].id = player'.produced]_vars

\* the output queue holds the stream change, two packets that had been
\* pre-queued, in their order, and the packet that triggered the flush
C12_Witness ==
    /\ backing = "recorded"
    /\ Len(player.m_queue) = 4
    /\ player.m_queue[1].kind = "STREAMCHANGE"
    /\ player.m_queue[2].id = 1
    /\ player.m_queue[3].id = 2
    /\ player.m_queue[4].id = 4
    /\ player.m_preQueue = <<>>

\* C13: the pre-queue never holds more than 51 packets, and a stream packet
\* that arrives while it holds 51 is dropped: the pre-queue and the output
\* queue stay as they are and the player goes on with the next TS packet.
C13_PreQueueBounded ==
    [][/\ Len(player'.m_preQueue) <= PreQueueLimit + 1
       /\ (/\ playerPc = "demux"
           /\ Len(player.m_preQueue) = PreQueueLimit + 1
           /\ ~player'.demuxReady)
             => /\ player'.m_preQueue = player.m_preQueue
                /\ player'.m_queue = player.m_queue
                /\ player'.remaining = player.remaining - 1
                /\ playerPc' \in {"demux", "getPacket"}]_vars

\* a stream packet was dropped at a pre-queue of 51 packets, and the player
\* went on to the end of the block
C13_Witness ==
    /\ backing = "recorded"
    /\ Len(player.m_preQueue) = PreQueueLimit + 1
    /\ player.skipped > 0
    /\ playerPc = "getPacket"

\* getNextPacket reads a block in this step
ReadsBlock == \E offset \in SyncOffsets, pmt \in PmtInputs : PlayerReadBlock(offset, pmt)

\* C14: a block with a PMT version greater than the recorded one makes the
\* player record the version, rebuild the stream bundle from PAT/PMT, hand it
\* to the demuxers and request a stream change; an equal or lower version
\* does none of this; and a stream-data packet demuxed after the update is in
\* the output queue only once a stream change was queued since the update,
\* which is queued ahead of whatever is queued with it.
C14_PmtUpdate ==
    [][/\ (ReadsBlock /\ playerPc' = "demux") =>
             \A offset \in SyncOffsets, pmt \in PmtInputs :
                 PlayerReadBlock(offset, pmt) =>
                     IF pmt > player.m_pmtVersion
                     THEN /\ player'.m_pmtVersion = pmt
                          /\ player'.m_demuxers = createFromPatPmt(patpmt)
                          /\ player'.m_requestStreamChange
                          /\ player'.updates = player.updates + 1
                     ELSE /\ player'.m_pmtVersion = player.m_pmtVersion
                          /\ player'.m_demuxers = player.m_demuxers
                          /\ player'.m_requestStreamChange = player.m_requestStreamChange
                          /\ player'.demuxReady = player.demuxReady
                          /\ player'.updates = player.updates
       /\ \A i \in DOMAIN player'.m_queue :
             (player'.m_queue[i].kind = "MUXPKT" /\ player'.m_queue[i].gen = player'.updates)
                 => player'.scSince
       /\ (playerPc = "demux" /\ ~player.scSince /\ player'.scSince)
             => /\ Queued # <<>>
                /\ Head(Queued).kind = "STREAMCHANGE"
                /\ Head(Queued).gen = player'.updates]_vars

\* after a second PMT version the output queue holds the stream change of
\* that version and, behind it, a stream-data packet demuxed after it
C14_Witness ==
    /\ backing = "recorded"
    /\ player.updates = 2
    /\ player.m_pmtVersion = 1
    /\ Len(player.m_queue) >= 2
    /\ player.m_queue[1].kind = "STREAMCHANGE"
    /\ player.m_queue[1].gen = 2
    /\ player.m_queue[2].kind = "MUXPKT"
    /\ player.m_queue[2].gen = 2

\* C15: seek completes for every wallclock value and every start and end
\* time, and leaves the file cursor at
\* (totalLength * (wallclockMs - startTime)) / (endTime - startTime), clamped
\* into [0, totalLength].
C15_SeekPosition ==
    [][\A w \in SeekClocks :
          PlayerSeek(w) =>
              /\ fault' = "none"
              /\ backing' = "recorded"
              /\ player'.seeks = player.seeks + 1
              /\ player.m_endTime # player.m_startTime =>
                    player'.m_position =
                        ClampPosition(player,
                            CDiv(player.m_totalLength * (w - player.m_startTime),
                                 player.m_endTime - player.m_startTime))]_vars

\* C16: every pass of the read loop of getPacket that gives no packet moves
\* the file position forward, so that the loop ends with a packet or at the
\* end of the file.
C16_IterationAdvances ==
    [][ReadsBlock => player'.m_position > player.m_position]_vars

\* the mapping table of the PAT/PMT stream types: 0x02, 0x1B, 0x24, 0x03,
\* 0x04, 0x0F, 0x11, 0x6A, 0x7A
TableType(code) ==
    CASE code = 2 -> "MPEG2VIDEO"
      [] code = 27 -> "H264"
      [] code = 36 -> "H265"
      [] code \in {3, 4} -> "MPEG2AUDIO"
      [] code = 15 -> "AAC"
      [] code = 17 -> "LATM"
      [] code = 106 -> "AC3"
      [] code = 122 -> "EAC3"
      [] OTHER -> "NONE"

\* the streams the parser knows by a type code: (pid, type code)
TypedSources(pp) ==
    (IF pp.vpid # 0 THEN {[pid |-> pp.vpid, type |-> pp.vtype]} ELSE {})
    \cup {pp.dpids[i] : i \in DOMAIN pp.dpids}
    \cup {pp.apids[i] : i \in DOMAIN pp.apids}

\* the entries of the bundle with the pid
EntriesOf(bundle, pid) == {i \in DOMAIN bundle : bundle[i].pid = pid}

\* C17: the bundle createFromPatPmt returns has, for every stream of the
\* parser whose type code is in the table, exactly one entry with its pid,
\* of the type the table gives, and for every subtitle stream exactly one
\* entry with its pid, of type DVB subtitle.
C17_TypeMapping ==
    item.returned =>
        /\ \A src \in TypedSources(patpmt) :
              TableType(src.type) # "NONE" =>
                  /\ Cardinality(EntriesOf(item.streams, src.pid)) = 1
                  /\ \A i \in EntriesOf(item.streams, src.pid) :
                        item.streams[i].type = TableType(src.type)
        /\ \A k \in DOMAIN patpmt.spids :
              /\ Cardinality(EntriesOf(item.streams, patpmt.spids[k].pid)) = 1
              /\ \A i \in EntriesOf(item.streams, patpmt.spids[k].pid) :
                    item.streams[i].type = "DVBSUB"

\* the type codes 0x1B, 0x0F and 0x6A gave one H.264, one AC3 and one AAC
\* stream with the pids of the parser
C17_Witness ==
    /\ item.returned
    /\ patpmt.vtype = 27
    /\ patpmt.apids = <<[pid |-> 301, type |-> 15]>>
    /\ patpmt.dpids = <<[pid |-> 201, type |-> 106]>>
    /\ patpmt.spids = <<>>
    /\ item.streams = <<[pid |-> 100, type |-> "H264"], [pid |-> 201, type |-> "AC3"],
                        [pid |-> 301, type |-> "AAC"]>>

\* C18: the bundle createFromPatPmt returns has no entry of type none and no
\* entry for a stream whose type code is not in the table, be it the video
\* stream, an audio stream or an AC3/EAC3 descriptor, and no entry for the
\* video stream of a recording without a video pid.
C18_UnrecognizedDropped ==
    item.returned =>
        /\ \A i \in DOMAIN item.streams : item.streams[i].type # "NONE"
        /\ \A src \in TypedSources(patpmt) :
              TableType(src.type) = "NONE" => EntriesOf(item.streams, src.pid) = {}
        /\ patpmt.vpid = 0 => EntriesOf(item.streams, 0) = {}

\* a recording without a video pid, with an audio stream and a descriptor of
\* unknown type codes, gave a bundle with the subtitle stream only
C18_Witness ==
    /\ item.returned
    /\ patpmt.hasVersions
    /\ patpmt.vpid = 0
    /\ patpmt.apids = <<[pid |-> 301, type |-> 6]>>
    /\ patpmt.dpids = <<[pid |-> 201, type |-> 6]>>
    /\ item.streams = <<[pid |-> 401, type |-> "DVBSUB"]>>

\* C19: a packet request never runs on a session that is half switched or
\* destroyed, and the channel switch of processChannelChange, the teardown,
\* requestPacket and seek exclude one another: the switch runs only while it
\* holds the mutex, a seek and a teardown start only when no other thread
\* holds it, and while requestPacket holds it the device, the attachment and
\* the channel of the session do not change.
C19_MutualExclusion ==
    [][/\ m_mutex' = "requestPacket" =>
             cc'.pc # "switch" /\ ctl'.m_streamer \in alive'
       /\ cc'.pc = "switch" =>
             m_mutex' = "processChannelChange" /\ ctl'.m_streamer \in alive'
       /\ (seeks' # seeks \/ alive' # alive) =>
             m_mutex = "free" /\ cc.pc # "switch"
       /\ m_mutex = "requestPacket" =>
             /\ streamer'.m_device = streamer.m_device
             /\ streamer'.attached = streamer.attached
             /\ streamer'.m_uid = streamer.m_uid
             /\ alive' = alive]_vars

\* processChannelChange has detached the session and holds the mutex while
\* an envelope is pending and packets wait to be read
C19_Witness ==
    /\ cc.pc = "switch"
    /\ m_mutex = "processChannelChange"
    /\ ~streamer.m_streamPacket.isNull
    /\ Unread(queue) # <<>>

\* C20: no thread touches a streamer or a queue that has been deleted: the
\* ChannelChange callback never calls into a deleted streamer, and the
\* session it switches is alive.
C20_DeleteIsSafe ==
    /\ fault # "use after free"
    /\ cc.pc = "switch" => cc.target \in alive

\* what the live queue got in this step
LiveQueued == SelectSeq(queue'.entries, LAMBDA e : e.id > produced)

\* the stream-change packets among the packets
StreamChangesIn(pkts) == {i \in DOMAIN pkts : pkts[i].kind = "STREAMCHANGE"}

\* C21: a stream-change packet is queued, by the live streamer and by the
\* recorded player alike, only when a stream change is requested and the
\* demuxer set is ready; queueing it clears the request, and a step queues
\* at most one, so that a request gives at most one stream-change packet.
C21_ReadinessGatesStreamChange ==
    [][/\ StreamChangesIn(LiveQueued) # {} =>
             /\ streamer.m_requestStreamChange
             /\ streamer'.demuxReady
             /\ ~streamer'.m_requestStreamChange
             /\ Cardinality(StreamChangesIn(LiveQueued)) = 1
       /\ StreamChangesIn(Queued) # {} =>
             /\ \A emit \in {<<>>} \cup {<<x>> : x \in PlayerStreamPackets},
                   ready, change \in BOOLEAN :
                     PlayerDemux(emit, ready, change) =>
                         player.m_requestStreamChange \/ change
             /\ player'.demuxReady
             /\ ~player'.m_requestStreamChange
             /\ Cardinality(StreamChangesIn(Queued)) = 1]_vars

\* the live queue got the stream change and the packet that triggered it,
\* and the request is cleared
C21_Witness ==
    /\ backing = "live"
    /\ Len(queue.entries) = 2
    /\ queue.entries[1].kind = "STREAMCHANGE"
    /\ queue.entries[2].kind = "MUXPKT"
    /\ streamer.demuxReady
    /\ ~streamer.m_requestStreamChange

\* the packets of an envelope, by their numbers
SubIds(env) == [i \in DOMAIN env.subs |-> env.subs[i].id]

\* the packet requestPacket reads from the live queue in this step, if any
LiveRead ==
    IF LiveQueue_canRead(queue) THEN <<LiveQueue_front(queue).id>> ELSE <<>>

\* an OPEN or a CLOSE ends the session in this step
SessionEnds ==
    /\ response'.cmd \in {"OPEN", "CLOSE"}
    /\ \/ processClose
       \/ \E uid \in RequestUids, lang \in LangInputs,
             devFree, tuneOk, attachOk, timerSwitch, timerOpen \in BOOLEAN :
             processOpen(uid, lang, devFree, tuneOk, attachOk, timerSwitch, timerOpen)

\* C23: between seeks and while the session lives, the packets read from the
\* live queue are, in the order they were read, the sub-packets of the
\* pending envelope, and they leave it only inside the envelope that
\* requestPacket returns; when the queue has nothing to read and is not
\* paused, requestPacket returns none and keeps the pending envelope.
C23_NothingLostOrReordered ==
    [][/\ requestPacket =>
             /\ IF LiveReturn /\ response'.kind = "envelope"
                THEN /\ SubIds(response'.payload)
                           = SubIds(streamer.m_streamPacket) \o LiveRead
                     /\ streamer'.m_streamPacket.isNull
                ELSE SubIds(streamer'.m_streamPacket)
                        = SubIds(streamer.m_streamPacket) \o LiveRead
             /\ LiveQueue_canRead(queue) => queue'.rd = queue.rd + 1
             /\ (~LiveQueue_canRead(queue) /\ ~queue.paused) =>
                   /\ LiveReturn
                   /\ response'.kind = "empty"
                   /\ streamer'.m_streamPacket = streamer.m_streamPacket
       /\ (~requestPacket /\ seeks' = seeks /\ ~SessionEnds) =>
             /\ SubIds(streamer'.m_streamPacket) = SubIds(streamer.m_streamPacket)
             /\ queue'.rd <= queue.rd]_vars

\* requestPacket has returned none at an empty queue and keeps an envelope of
\* two sub-packets for the next call
C23_Witness ==
    /\ response.cmd = "REQUEST"
    /\ response.kind = "empty"
    /\ m_mutex = "free"
    /\ ~queue.paused
    /\ SubIds(streamer.m_streamPacket) = <<1, 2>>

\* C24: when the player reports the end of the file, every packet the
\* demuxer placed in the output queue has been delivered: the output queue
\* is empty and no sub-packet waits in a pending envelope.
C24_DeliveryComplete ==
    [][PlayerEndOfFile =>
          /\ player.m_queue = <<>>
          /\ player.m_streamPacket.subs = <<>>]_vars

\* C25: an OPEN answered with a status other than OK leaves no session: no
\* LiveStreamer is held, and a REQUEST, PAUSE, SIGNAL or SEEK that follows is
\* answered with nothing.
C25_FailedOpenIsIdle ==
    [][/\ (response'.cmd = "OPEN" /\ response'.status # "OK")
             => ctl'.m_streamer = NULL /\ alive' = {}
       /\ (/\ response.cmd = "OPEN"
           /\ response.status # "OK"
           /\ response'.cmd \in {"REQUEST", "PAUSE", "SIGNAL", "SEEK"})
             => response'.kind = "none"]_vars

\* the data packets among the packets
DataIn(pkts) == {i \in DOMAIN pkts : pkts[i].kind = "MUXPKT"}

\* C26: after a switchChannel the live queue gets no stream-data packet
\* before it got the stream-change packet of that switch: a stream-data
\* packet is queued only when no stream change is pending, also while the
\* demuxer set is not ready.
C26_StreamChangeBeforeData ==
    [][DataIn(LiveQueued) # {} => ~streamer'.m_requestStreamChange]_vars

\* C27: while m_waitForKeyFrame is set no stream-data packet is queued until
\* a non-empty audio/video packet of frame type I arrives; that packet is
\* queued and clears the flag, and from then on every non-empty audio/video
\* packet is queued whatever its frame type, until setWaitForKeyFrame(true)
\* sets the flag again; an empty packet and a packet that is neither audio
\* nor video is not queued, changes no flag and triggers no stream change.
C27_WaitForKeyFrame ==
    [][/\ \A pkt \in StreamPackets, ready \in BOOLEAN :
             Receive(pkt, ready) =>
                 LET av == pkt.len # 0 /\ pkt.content \in {"AUDIO", "VIDEO"}
                     waits == streamer.m_waitForKeyFrame
                 IN  /\ ~av =>
                           /\ queue' = queue
                           /\ produced' = produced
                           /\ streamer'.m_waitForKeyFrame = waits
                           /\ streamer'.m_requestStreamChange
                                 = streamer.m_requestStreamChange
                     /\ (av /\ waits /\ pkt.frameType # "I") =>
                           /\ DataIn(LiveQueued) = {}
                           /\ streamer'.m_waitForKeyFrame
                     /\ (av /\ (~waits \/ pkt.frameType = "I")) =>
                           /\ Cardinality(DataIn(LiveQueued)) = 1
                           /\ queue'.entries[Len(queue'.entries)]
                                 = MuxPacket(produced', pkt.len)
                           /\ ~streamer'.m_waitForKeyFrame
       /\ (streamer'.m_waitForKeyFrame /\ ~streamer.m_waitForKeyFrame)
             => setWaitForKeyFrame(TRUE)]_vars

\* while the streamer waits for a key frame, a packet that is none has
\* triggered the stream change and was not queued itself
C27_Witness ==
    /\ streamer.m_waitForKeyFrame
    /\ streamer.attached
    /\ produced = 1
    /\ queue.entries = <<StreamChangePacket(1)>>

\* the file position a seek to the timestamp leaves
SeekTarget(pl, w) == ClampPosition(pl, filePositionFromClock(pl, w))

\* C28: with a total length above 0 and an end time that is the start time
\* plus the length of the recording, a seek to the timestamp onStreamPacket
\* puts on a packet of stream position p leaves the file position at some
\* p' with 0 <= p' <= p, and p' does not decrease when p grows.
C28_SeekRoundTrip ==
    [][\A start \in {0, player.m_startTime}, p \in 0..player.m_totalLength :
          LET w == onStreamPacket_currentTime(player, start, p)
          IN  (/\ player.m_totalLength > 0
               /\ durationMs(player) = RecLengthSec * 1000
               /\ player'.m_position = SeekTarget(player, w)
               /\ PlayerSeek(w))
                 => /\ 0 <= player'.m_position
                    /\ player'.m_position <= p
                    /\ p < player.m_totalLength =>
                          player'.m_position
                            <= SeekTarget(player,
                                  onStreamPacket_currentTime(player, start, p + 1))]_vars

\* the seek to the timestamp of stream position 377 of a recording of 752
\* bytes has left the file position at 376
C28_Witness ==
    /\ backing = "recorded"
    /\ player.seeks = MaxSeeks
    /\ player.m_totalLength = 752
    /\ player.m_position = 376
    /\ player.m_endTime - player.m_startTime = RecLengthSec * 1000
    /\ SeekTarget(player, onStreamPacket_currentTime(player, player.m_startTime, 377)) = 376

\* C29: LiveStreamer::processChannelChange changes nothing when the streamer
\* is not attached or when the uid of the channel is not the uid of the
\* session: the device, the attachment, the demuxer set, the stream-change
\* request and the queue stay as they are; only an attached session of that
\* uid is detached and switched, by switchChannel, to the channel again.
C29_ChannelChangeNoOp ==
    [][/\ ChannelChangeDetach =>
             IF ~streamer.attached \/ cc.channel.uid # streamer.m_uid
             THEN /\ UNCHANGED <<streamer, queue, cache, m_mutex, ctl, alive>>
                  /\ cc'.pc = "idle"
             ELSE /\ streamer'.m_device = NoDevice
                  /\ ~streamer'.attached
                  /\ cc' = [cc EXCEPT !.pc = "switch"]
       /\ \A devFree, tuneOk, attachOk \in BOOLEAN :
             ChannelChangeSwitch(devFree, tuneOk, attachOk) =>
                 /\ cc.result = "none"
                 /\ (devFree /\ tuneOk) =>
                       /\ streamer'.m_uid = cc.channel.uid
                       /\ streamer'.m_requestStreamChange
                       /\ ~streamer'.demuxReady
                       /\ streamer'.attached = attachOk
       /\ (cc.pc # "switch" /\ cc'.pc = "switch") =>
             streamer.attached /\ cc.channel.uid = streamer.m_uid]_vars

\* an attached session that has queued packets has ignored a callback (of
\* another channel), and is attached as before
C29_Witness ==
    /\ cc.pc = "idle"
    /\ cc.result = "ignored"
    /\ ctl.m_streamer # NULL
    /\ streamer.attached
    /\ streamer.m_device = TheDevice
    /\ Len(queue.entries) = 2

\* the channel of a unique id
ChannelOf(uid) == CHOOSE c \in Channels : c.uid = uid

\* C22: the cached bundle of a channel, once there, is replaced only when
\* the bundle of the channel data fails the isMetaOf check against it; when
\* the check holds neither switchChannel nor the emission of a stream change
\* replaces it.
C22_CacheOverwriteOnlyOnMismatch ==
    [][\A u \in DOMAIN cache :
          (Len(cache[u]) # 0 /\ cache'[u] # cache[u])
              => ~isMetaOf(createFromChannel(ChannelOf(u), vdr), cache[u])]_vars

====
